---- MODULE Spec2Model ----
(***************************************************************************)
(* A model of factom/client.py: the chain reader Factomd.read_chain, the   *)
(* creation workflows FactomWalletd.new_chain / new_entry, the transfer    *)
(* workflows FactomWalletd.fct_to_ec / fct_to_fct and the transaction-name *)
(* helper BaseAPI._xact_name.  The two daemons (factomd, factom-walletd)   *)
(* are the environment: every JSON-RPC call is one step whose outcome      *)
(* (a result, or an error raised by _request) the daemon decides.          *)
(***************************************************************************)
EXTENDS Integers, Sequences, FiniteSets, TLC

\* ------------------------------------------------------------------ bounds

\* Most entry blocks a chain of the read specification holds.
MaxBlocks == 2
\* Most calls of a method the caller makes in one behaviour.
MaxInvocations == 2

\* ------------------------------------------------------------ pure helpers

RECURSIVE Rep(_, _)
\* Python's  c * n  on strings.
Rep(c, n) == IF n = 0 THEN "" ELSE c \o Rep(c, n - 1)

\* Python's reversed() / list reversal.
Reverse(s) == [i \in 1..Len(s) |-> s[Len(s) + 1 - i]]

RECURSIVE Flatten(_)
\* The concatenation of a sequence of sequences.
Flatten(ss) == IF ss = <<>> THEN <<>> ELSE Head(ss) \o Flatten(Tail(ss))

\* The marker of a Python name that holds nothing (None, or not yet bound).
None == "None"

\* The marker of `block`, and of what the running method returns and raises,
\* while there is none: the empty tuple, comparable with the records and
\* the lists these names hold later.  Whether a method has returned at all
\* is what pc says, never this marker.
Unbound == <<>>

\* ------------------------------------------------------- hex / unhex (utils)

HexDigits == <<"0", "1", "2", "3", "4", "5", "6", "7",
               "8", "9", "a", "b", "c", "d", "e", "f">>

\* The value 0..15 of one hex character.
HexValue(c) == (CHOOSE i \in 1..16 : HexDigits[i] = c) - 1

\* hex() of a byte string: two hex characters per byte, high nibble first.
hex(val) ==
    Flatten([i \in 1..Len(val) |->
                <<HexDigits[(val[i] \div 16) + 1], HexDigits[(val[i] % 16) + 1]>>])

\* hex() of a list: element by element.
hex_list(vals) == [i \in 1..Len(vals) |-> hex(vals[i])]

\* unhex() of a hex string: one byte per pair of hex characters.
unhex(val) ==
    [i \in 1..(Len(val) \div 2) |->
        16 * HexValue(val[2 * i - 1]) + HexValue(val[2 * i])]

\* unhex() of a list: element by element.
unhex_list(vals) == [i \in 1..Len(vals) |-> unhex(vals[i])]

\* ------------------------------------------------------------- the sentinel

\* The number of characters of NULL_BLOCK (a 32-byte key merkle root in hex).
NullBlockLen == 64

\* A variant of NULL_BLOCK: two zero characters more.
NULL_BLOCK_66 == Rep("0", 66)

\* NULL_BLOCK: the prevkeymr of a chain's first entry block.
NULL_BLOCK == Rep("0", NullBlockLen)

\* ---------------------------------------------------------------- the node

\* The one chain the model reads and writes.
ChainId == "c1"

\* The key merkle root of the i-th entry block of the chain (i >= 1).
KeyMR(i) == Rep(HexDigits[i + 1], 64)

\* A keymr no entry block of the node has: 66 zero characters, two more than
\* a key merkle root has.
DanglingKeyMR == Rep("0", 66)

\* The entry hashes of the read specification.
Hashes == {"e1", "e2", "e3"}

\* The entry the node holds under a hash of the read specification, as the
\* `entry` call returns it: extids and content hex-encoded.
WireEntryOf(h) ==
    CASE h = "e1" -> [chainid |-> ChainId, extids |-> <<>>,
                      content |-> <<"0", "1">>]
      [] h = "e2" -> [chainid |-> ChainId, extids |-> << <<"a", "b">> >>,
                      content |-> <<"f", "f", "0", "0">>]
      [] h = "e3" -> [chainid |-> ChainId, extids |-> << <<"6", "1">>, <<>> >>,
                      content |-> <<>>]

VARIABLES
    nodeHead,     \* node: the chainhead of ChainId
    nodeBlocks,   \* node: keymr -> [entrylist, prevkeymr] of each entry block
    nodeEntries,  \* node: entryhash -> the entry, hex-encoded
    nodeCommits,  \* node: the commit messages received and not yet processed
    nodeAcked,    \* node: the commit messages processed, awaiting their reveal
    nodeRevealed, \* node: the entries of ChainId revealed, awaiting a block
    pc,           \* client: where the running method stands
    invocations,  \* caller: the methods called so far
    entries,      \* read_chain: the list `entries`
    keymr,        \* read_chain: the variable `keymr`
    block,        \* read_chain: the variable `block`
    todo,         \* read_chain: what the for loop's iterator has yet to yield
    rpclog,       \* the JSON-RPC calls the running method issued, in order
    result,       \* what the method returned (Unbound while it has not)
    raised,       \* the error the method raised (Unbound while it has not)
    args,         \* new_chain / new_entry: the method called and its arguments
    calls,        \* new_chain / new_entry: the variable `calls`
    slept,        \* new_chain / new_entry: the seconds spent in time.sleep
    written,      \* caller: what each new_entry that returned was given and gave
    sample,       \* _xact_name: the characters random.choices may draw here
    drawn,        \* _xact_name: the list random.choices has built so far
    xact_name,    \* _xact_name: the name returned (None while it has not)
    builders,     \* wallet: tx-name -> the transaction builder open under it
    submitted,    \* node: the transactions factoid-submit has accepted
    xpc,          \* transfer p: idle, running, returned or raised
    xstep,        \* transfer p: the statement it executes next (1..7)
    xargs,        \* transfer p: the method called and its arguments
    xname,        \* transfer p: the variable `name`
    xcall,        \* transfer p: call['params']['transaction'] of its `call`
    xlog,         \* transfer p: the JSON-RPC calls it issued, in order
    xresult,      \* transfer p: what it returned (None while it has not)
    xraised       \* transfer p: the error it raised (None while it has not)

nodeVars == <<nodeHead, nodeBlocks, nodeEntries, nodeCommits, nodeAcked,
              nodeRevealed>>
readVars == <<entries, keymr, block, todo>>
callVars == <<pc, invocations, rpclog, result, raised>>
createVars == <<args, calls, slept, written>>
nameVars == <<sample, drawn, xact_name>>
xferVars == <<builders, submitted, xpc, xstep, xargs, xname, xcall, xlog,
              xresult, xraised>>
vars == <<nodeVars, readVars, callVars, createVars, nameVars, xferVars>>

\* What the steps of each method leave alone.
outsideRead == <<createVars, nameVars, xferVars>>
outsideCreate == <<readVars, nameVars, xferVars>>
outsideName == <<nodeVars, readVars, callVars, createVars, xferVars>>
outsideTransfer == <<nodeVars, readVars, callVars, createVars, nameVars>>

\* One JSON-RPC call: the `method` and `params` of BaseAPI._request.
Call(method, params) == [method |-> method, params |-> params]

\* The error _request raises for a call the daemon answers with status >= 400.
ErrorOf(call) == [error |-> call]

\* One call as the logs keep it: ok when the daemon answered with a status
\* below 400 and _request returned `answer`, the 'result' of the response;
\* not ok, and without an answer, when handle_error_response raised.
Answered(call, answer) == [call |-> call, ok |-> TRUE, answer |-> answer]
Failed(call) == [call |-> call, ok |-> FALSE]

\* The caller may call a method: none is running, and the budget allows.
Callable ==
    /\ pc \in {"idle", "returned", "raised"}
    /\ invocations < MaxInvocations

\* -------------------------------------------------------------- _xact_name

\* string.ascii_uppercase
ascii_uppercase ==
    <<"A", "B", "C", "D", "E", "F", "G", "H", "I", "J", "K", "L", "M",
      "N", "O", "P", "Q", "R", "S", "T", "U", "V", "W", "X", "Y", "Z">>

\* string.digits
digits == <<"0", "1", "2", "3", "4", "5", "6", "7", "8", "9">>

\* A variant of Population: string.ascii_letters + string.digits.
Population_Letters ==
    <<"a", "b", "c", "d", "e", "f", "g", "h", "i", "j", "k", "l", "m",
      "n", "o", "p", "q", "r", "s", "t", "u", "v", "w", "x", "y", "z">>
    \o ascii_uppercase \o digits

\* The population random.choices draws from.
Population == ascii_uppercase \o digits

\* The k of random.choices: the characters drawn.
NameLen == 6

\* 'TX_{}'.format(suffix), a name being the sequence of its characters.
FormatName(suffix) == <<"T", "X", "_">> \o suffix

\* No name has been asked for.
NoNameDrawn ==
    /\ sample = {}
    /\ drawn = <<>>
    /\ xact_name = None

\* random.choices draws one more character, with replacement.
XactNameDraw ==
    /\ xact_name = None
    /\ Len(drawn) < NameLen
    /\ \E i \in sample : drawn' = Append(drawn, Population[i])
    /\ UNCHANGED <<sample, xact_name>>
    /\ UNCHANGED outsideName

\* The k characters are drawn: the formatted name is returned.
XactNameReturn ==
    /\ xact_name = None
    /\ Len(drawn) = NameLen
    /\ xact_name' = FormatName(drawn)
    /\ UNCHANGED <<sample, drawn>>
    /\ UNCHANGED outsideName

\* One call of _xact_name; the draws of the call range over two places of
\* the population, every two places in some behaviour.
InitName ==
    /\ \E i, j \in DOMAIN Population : sample = {i, j}
    /\ drawn = <<>>
    /\ xact_name = None

\* ------------------------------------------------- fct_to_ec / fct_to_fct

\* The threads that may each run one transfer.
Procs == {1, 2}

\* self.fct_address and self.ec_address of the wallet client.
self_fct_address == "FA1"
self_ec_address == "EC1"

\* Python's  a or b  on addresses: b when a is None or the empty string.
Or(a, b) == IF a \in {None, ""} THEN b ELSE a

\* An optional address argument is given: not left out, and not empty.
Given(address) == address \notin {None, ""}

\* What an optional address argument resolves to.
Resolved(address, default) == IF Given(address) THEN address ELSE default

\* The names _xact_name returns in the transfer specification.
SampledNames ==
    {FormatName(<<"A", "A", "A", "A", "A", "A">>),
     FormatName(<<"Z", "9", "Z", "9", "Z", "9">>)}

\* FactomWalletd.new_transaction (a name is always given here).
new_transaction(name) == Call("new-transaction", [txname |-> name])

\* FactomWalletd.add_input
add_input(name, amount, fct_address) ==
    Call("add-input", [txname |-> name, amount |-> amount,
                       address |-> Or(fct_address, self_fct_address)])

\* FactomWalletd.add_ec_output
add_ec_output(name, amount, ec_address) ==
    Call("add-ec-output", [txname |-> name, amount |-> amount,
                           address |-> Or(ec_address, self_ec_address)])

\* FactomWalletd.add_output
add_output(name, amount, fct_address) ==
    Call("add-output", [txname |-> name, amount |-> amount,
                        address |-> fct_address])

\* A variant of add_fee: the fee is always debited from self.fct_address.
add_fee_Default(name, fct_address) ==
    Call("add-fee", [txname |-> name, address |-> self_fct_address])

\* FactomWalletd.add_fee
add_fee(name, fct_address) ==
    Call("add-fee", [txname |-> name,
                     address |-> Or(fct_address, self_fct_address)])

\* FactomWalletd.sign_transaction
sign_transaction(name) == Call("sign-transaction", [txname |-> name])

\* A variant of compose_transaction: the name composed is a fixed one.
compose_transaction_Fixed(name) ==
    Call("compose-transaction",
         [txname |-> <<"T", "X", "_", "A", "A", "A", "A", "A", "A">>])

\* FactomWalletd.compose_transaction
compose_transaction(name) == Call("compose-transaction", [txname |-> name])

\* Factomd.factoid_submit
factoid_submit(transaction) ==
    Call("factoid-submit", [transaction |-> transaction])

\* A variant of fct_to_ec: the fee is added after the signature.
fct_to_ec_FeeLate(name, a, c) ==
    <<new_transaction(name),
      add_input(name, a.amount, a.from),
      add_ec_output(name, a.amount, a.to),
      sign_transaction(name),
      add_fee(name, a.from),
      compose_transaction(name),
      factoid_submit(c)>>

\* The calls of fct_to_ec(factomd, amount, fct_address, ec_address) in the
\* order of its statements; c is call['params']['transaction'].
fct_to_ec(name, a, c) ==
    <<new_transaction(name),
      add_input(name, a.amount, a.from),
      add_ec_output(name, a.amount, a.to),
      add_fee(name, a.from),
      sign_transaction(name),
      compose_transaction(name),
      factoid_submit(c)>>

\* A variant of fct_to_fct: the output is given one factoshi more than the
\* input.
fct_to_fct_OutputMore(name, a, c) ==
    <<new_transaction(name),
      add_input(name, a.amount, a.from),
      add_output(name, a.amount + 1, a.to),
      add_fee(name, a.from),
      sign_transaction(name),
      compose_transaction(name),
      factoid_submit(c)>>

\* The calls of fct_to_fct(factomd, amount, fct_to, fct_from) in the order of
\* its statements.
fct_to_fct(name, a, c) ==
    <<new_transaction(name),
      add_input(name, a.amount, a.from),
      add_output(name, a.amount, a.to),
      add_fee(name, a.from),
      sign_transaction(name),
      compose_transaction(name),
      factoid_submit(c)>>

\* The statements of the transfer p runs.
Statements(p) ==
    IF xargs[p].method = "fct_to_ec"
    THEN fct_to_ec(xname[p], xargs[p], xcall[p])
    ELSE fct_to_fct(xname[p], xargs[p], xcall[p])

\* The call transfer p issues next.
NextCall(p) == Statements(p)[xstep[p]]

\* A builder as new-transaction opens it.
EmptyBuilder ==
    [inputs |-> <<>>, outputs |-> <<>>, ecoutputs |-> <<>>, fees |-> <<>>,
     signed |-> FALSE]

\* The wallet's builders after it has carried out `call`.
WalletAfter(call) ==
    LET n == call.params.txname
        b == builders[n]
        put == [amount |-> call.params.amount, address |-> call.params.address]
        set(v) == [k \in DOMAIN builders \cup {n} |->
                      IF k = n THEN v ELSE builders[k]]
    IN  CASE call.method = "new-transaction" ->
               IF n \in DOMAIN builders THEN builders ELSE set(EmptyBuilder)
          [] call.method = "add-input" ->
               set([b EXCEPT !.inputs = Append(@, put)])
          [] call.method = "add-ec-output" ->
               set([b EXCEPT !.ecoutputs = Append(@, put)])
          [] call.method = "add-output" ->
               set([b EXCEPT !.outputs = Append(@, put)])
          [] call.method = "add-fee" ->
               set([b EXCEPT !.fees = Append(@, call.params.address)])
          [] call.method = "sign-transaction" ->
               set([b EXCEPT !.signed = TRUE])
          [] OTHER -> builders

\* What the transfer keeps of the wallet's answer to `call`: of the answer to
\* compose-transaction the transaction composed of the builder, of the other
\* answers nothing.
WalletAnswer(call) ==
    IF call.method = "compose-transaction"
    THEN builders[call.params.txname]
    ELSE None

\* The daemon can carry out `call`: a builder call needs its builder open.
Answerable(call) ==
    call.method \in {"new-transaction", "factoid-submit"}
        \/ call.params.txname \in DOMAIN builders

\* The largest amount of the transfer specification.
MaxAmount == 1

\* The arguments of fct_to_ec (amount, fct_address as from, ec_address as to)
\* and of fct_to_fct (amount, fct_from as from, fct_to as to): an optional
\* address is left out (None), given, or given as the empty string.
TransferArgs ==
    [method : {"fct_to_ec"}, amount : 1..MaxAmount, from : {None, "", "FA2"},
     to : {None, "EC2"}]
      \cup
    [method : {"fct_to_fct"}, amount : 1..MaxAmount, from : {None, "FA2"},
     to : {"FA3"}]

\* No transfer has been called, no builder is open.
NoTransfer ==
    /\ builders = <<>>
    /\ submitted = <<>>
    /\ xpc = [p \in Procs |-> "idle"]
    /\ xstep = [p \in Procs |-> 1]
    /\ xargs = [p \in Procs |-> None]
    /\ xname = [p \in Procs |-> None]
    /\ xcall = [p \in Procs |-> None]
    /\ xlog = [p \in Procs |-> <<>>]
    /\ xresult = [p \in Procs |-> None]
    /\ xraised = [p \in Procs |-> None]

\* A variant of TransferCall: a name that the wallet has a builder open under
\* is refused by the client.
TransferCall_Guarded(p) ==
    /\ xpc[p] = "idle"
    /\ \E a \in TransferArgs : xargs' = [xargs EXCEPT ![p] = a]
    /\ \E n \in SampledNames :
        /\ xname' = [xname EXCEPT ![p] = n]
        /\ xpc' = [xpc EXCEPT ![p] =
                      IF n \in DOMAIN builders THEN "raised" ELSE "running"]
        /\ xraised' = [xraised EXCEPT ![p] =
                          IF n \in DOMAIN builders
                          THEN [error |-> "name in use"]
                          ELSE @]
    /\ UNCHANGED <<builders, submitted, xstep, xcall, xlog, xresult>>
    /\ UNCHANGED outsideTransfer

\* Thread p calls fct_to_ec or fct_to_fct: name = self._xact_name().
TransferCall(p) ==
    /\ xpc[p] = "idle"
    /\ \E a \in TransferArgs : xargs' = [xargs EXCEPT ![p] = a]
    /\ \E n \in SampledNames : xname' = [xname EXCEPT ![p] = n]
    /\ xpc' = [xpc EXCEPT ![p] = "running"]
    /\ UNCHANGED <<builders, submitted, xstep, xcall, xlog, xresult, xraised>>
    /\ UNCHANGED outsideTransfer

\* The next wallet call of transfer p is answered; the result of
\* compose-transaction is kept in `call`.
WalletCallOk(p) ==
    /\ xpc[p] = "running"
    /\ xstep[p] \in 1..6
    /\ LET call == NextCall(p) IN
        /\ Answerable(call)
        /\ builders' = WalletAfter(call)
        /\ xlog' = [xlog EXCEPT ![p] =
                       Append(@, Answered(call, WalletAnswer(call)))]
        /\ xcall' = [xcall EXCEPT ![p] =
                        IF call.method = "compose-transaction"
                        THEN WalletAnswer(call)
                        ELSE @]
    /\ xstep' = [xstep EXCEPT ![p] = @ + 1]
    /\ UNCHANGED <<submitted, xpc, xargs, xname, xresult, xraised>>
    /\ UNCHANGED outsideTransfer

\* return factomd.factoid_submit(call['params']['transaction']), answered.
SubmitOk(p) ==
    /\ xpc[p] = "running"
    /\ xstep[p] = 7
    /\ LET call == NextCall(p)
           answer == [message |-> "Successfully submitted transaction",
                      transaction |-> call.params.transaction]
       IN
        /\ submitted' = Append(submitted, call.params.transaction)
        /\ xlog' = [xlog EXCEPT ![p] = Append(@, Answered(call, answer))]
        /\ xresult' = [xresult EXCEPT ![p] = answer]
    /\ xpc' = [xpc EXCEPT ![p] = "returned"]
    /\ UNCHANGED <<builders, xstep, xargs, xname, xcall, xraised>>
    /\ UNCHANGED outsideTransfer

\* A variant of TransferCallFail: the builder is deleted before the error is
\* raised.
TransferCallFail_Rollback(p) ==
    /\ xpc[p] = "running"
    /\ xstep[p] \in 1..7
    /\ xlog' = [xlog EXCEPT ![p] =
                   Append(@, Failed(NextCall(p)))]
    /\ xraised' = [xraised EXCEPT ![p] = ErrorOf(NextCall(p))]
    /\ xpc' = [xpc EXCEPT ![p] = "raised"]
    /\ builders' = [n \in DOMAIN builders \ {xname[p]} |-> builders[n]]
    /\ UNCHANGED <<submitted, xstep, xargs, xname, xcall, xresult>>
    /\ UNCHANGED outsideTransfer

\* A variant of TransferCallFail: the call that failed is issued again.
TransferCallFail_Retry(p) ==
    /\ xpc[p] = "running"
    /\ xstep[p] \in 1..7
    /\ xlog' = [xlog EXCEPT ![p] =
                   Append(@, Failed(NextCall(p)))]
    /\ UNCHANGED <<builders, submitted, xpc, xstep, xargs, xname, xcall,
                   xresult, xraised>>
    /\ UNCHANGED outsideTransfer

\* The next call of transfer p fails: _request raises, and so does the
\* transfer.
TransferCallFail(p) ==
    /\ xpc[p] = "running"
    /\ xstep[p] \in 1..7
    /\ xlog' = [xlog EXCEPT ![p] =
                   Append(@, Failed(NextCall(p)))]
    /\ xraised' = [xraised EXCEPT ![p] = ErrorOf(NextCall(p))]
    /\ xpc' = [xpc EXCEPT ![p] = "raised"]
    /\ UNCHANGED <<builders, submitted, xstep, xargs, xname, xcall, xresult>>
    /\ UNCHANGED outsideTransfer

\* --------------------------------------------------- new_chain / new_entry

\* The seconds of time.sleep between the commit and the reveal.
SleepSeconds == 2

RECURSIVE Join(_)
\* ''.join(chars)
Join(chars) == IF chars = <<>> THEN "" ELSE Head(chars) \o Join(Tail(chars))

RECURSIVE JoinAll(_)
\* The hex strings of a list, each followed by a comma, in one string.
JoinAll(list) ==
    IF list = <<>> THEN "" ELSE Join(Head(list)) \o "," \o JoinAll(Tail(list))

\* The entry hash the daemons compute for an entry: one hash per chain id,
\* external ids and content.
EntryHash(e) == e.chainid \o ":" \o JoinAll(e.extids) \o ":" \o Join(e.content)

\* The id of the chain new_chain creates, which the wallet derives from the
\* first entry's external ids.
ChainIdOf(extids) == "chain:" \o JoinAll(extids)

\* The external ids and the contents the caller writes: byte strings.
SampledExtIds == {<<>>, << <<255, 10>>, <<>> >>}
SampledContents == {<<>>, <<10>>, <<0, 171>>}

\* The arguments of new_chain and new_entry in the creation specification.
CreateArgs ==
    [method : {"new_entry"}, chain_id : {ChainId}, ext_ids : SampledExtIds,
     content : SampledContents, ec_address : {None, "EC2"}]
      \cup
    [method : {"new_chain"}, chain_id : {None}, ext_ids : SampledExtIds,
     content : {<<10>>}, ec_address : {None}]

\* new_chain: the compose-chain call.
new_chain(a) ==
    Call("compose-chain",
         [chain |-> [firstentry |-> [extids  |-> hex_list(a.ext_ids),
                                     content |-> hex(a.content)]],
          ecpub |-> Or(a.ec_address, self_ec_address)])

\* new_entry: the compose-entry call.
new_entry(a) ==
    Call("compose-entry",
         [entry |-> [chainid |-> a.chain_id,
                     extids  |-> hex_list(a.ext_ids),
                     content |-> hex(a.content)],
          ecpub |-> Or(a.ec_address, self_ec_address)])

\* The compose call of the method called.
ComposeCall(a) == IF a.method = "new_chain" THEN new_chain(a) ELSE new_entry(a)

\* Factomd.commit_chain / Factomd.commit_entry
commit_chain(message) == Call("commit-chain", [message |-> message])
commit_entry(message) == Call("commit-entry", [message |-> message])

\* Factomd.reveal_chain / Factomd.reveal_entry
reveal_chain(e) == Call("reveal-chain", [entry |-> e])
reveal_entry(e) == Call("reveal-entry", [entry |-> e])

\* factomd.commit_chain(calls['commit']['params']['message']), and likewise
\* commit_entry.
CommitCall(a, c) ==
    IF a.method = "new_chain"
    THEN commit_chain(c.commit.params.message)
    ELSE commit_entry(c.commit.params.message)

\* factomd.reveal_chain(calls['reveal']['params']['entry']), and likewise
\* reveal_entry.
RevealCall(a, c) ==
    IF a.method = "new_chain"
    THEN reveal_chain(c.reveal.params.entry)
    ELSE reveal_entry(c.reveal.params.entry)

\* The entry the wallet composes from the params of a compose call.
ComposedEntry(call) ==
    IF call.method = "compose-chain"
    THEN [chainid |-> ChainIdOf(call.params.chain.firstentry.extids),
          extids  |-> call.params.chain.firstentry.extids,
          content |-> call.params.chain.firstentry.content]
    ELSE call.params.entry

\* What the wallet answers a compose call with: the commit call and the
\* reveal call of the entry.
WalletComposed(call) ==
    LET e == ComposedEntry(call) IN
    [commit |-> [params |-> [message |-> [entryhash |-> EntryHash(e),
                                          ecpub |-> call.params.ecpub]]],
     reveal |-> [params |-> [entry |-> e]]]

\* What the node answers a reveal call with.
NodeRevealed(call) ==
    [message   |-> "Entry Reveal Success",
     chainid   |-> call.params.entry.chainid,
     entryhash |-> EntryHash(call.params.entry)]

\* The call of new_chain(...) or new_entry(...).
CreateCall ==
    /\ Callable
    /\ invocations' = invocations + 1
    /\ \E a \in CreateArgs : args' = a
    /\ pc' = "compose"
    /\ calls' = None
    /\ slept' = 0
    /\ rpclog' = <<>>
    /\ result' = Unbound
    /\ raised' = Unbound
    /\ UNCHANGED <<nodeVars, written>>
    /\ UNCHANGED outsideCreate

\* calls = self._request('compose-chain' / 'compose-entry', ...), answered.
ComposeOk ==
    /\ pc = "compose"
    /\ rpclog' = Append(rpclog, Answered(ComposeCall(args),
                                         WalletComposed(ComposeCall(args))))
    /\ calls' = WalletComposed(ComposeCall(args))
    /\ pc' = "commit"
    /\ UNCHANGED <<nodeVars, invocations, result, raised, args, slept, written>>
    /\ UNCHANGED outsideCreate

\* The compose call fails.
ComposeFail ==
    /\ pc = "compose"
    /\ rpclog' = Append(rpclog, Failed(ComposeCall(args)))
    /\ raised' = ErrorOf(ComposeCall(args))
    /\ pc' = "raised"
    /\ UNCHANGED <<nodeVars, invocations, result, createVars>>
    /\ UNCHANGED outsideCreate

\* factomd.commit_chain(...) / factomd.commit_entry(...), answered: the node
\* has received the commit message.
CommitOk ==
    /\ pc = "commit"
    /\ LET call == CommitCall(args, calls) IN
        /\ rpclog' = Append(rpclog, Answered(call,
                                [message |-> "Entry Commit Success"]))
        /\ nodeCommits' = nodeCommits \cup {call.params.message}
    /\ pc' = "sleep"
    /\ UNCHANGED <<nodeHead, nodeBlocks, nodeEntries, nodeAcked, nodeRevealed>>
    /\ UNCHANGED <<invocations, result, raised, createVars>>
    /\ UNCHANGED outsideCreate

\* A variant of CommitFail: the error of the commit call is swallowed.
CommitFail_Ignored ==
    /\ pc = "commit"
    /\ rpclog' = Append(rpclog, Failed(CommitCall(args, calls)))
    /\ pc' = "sleep"
    /\ UNCHANGED <<nodeVars, invocations, result, raised, createVars>>
    /\ UNCHANGED outsideCreate

\* The commit call fails.
CommitFail ==
    /\ pc = "commit"
    /\ rpclog' = Append(rpclog, Failed(CommitCall(args, calls)))
    /\ raised' = ErrorOf(CommitCall(args, calls))
    /\ pc' = "raised"
    /\ UNCHANGED <<nodeVars, invocations, result, createVars>>
    /\ UNCHANGED outsideCreate

\* A variant of Sleep: the reveal follows the commit at once.
Sleep_Skipped ==
    /\ pc = "sleep"
    /\ pc' = "reveal"
    /\ UNCHANGED <<nodeVars, invocations, rpclog, result, raised, createVars>>
    /\ UNCHANGED outsideCreate

\* time.sleep(2)
Sleep ==
    /\ pc = "sleep"
    /\ slept' = slept + SleepSeconds
    /\ pc' = "reveal"
    /\ UNCHANGED <<nodeVars, invocations, rpclog, result, raised, args, calls,
                   written>>
    /\ UNCHANGED outsideCreate

\* return factomd.reveal_chain(...) / factomd.reveal_entry(...), answered:
\* the node has processed the commit of this entry, and takes the entry.
RevealOk ==
    /\ pc = "reveal"
    /\ LET call == RevealCall(args, calls)
           e == call.params.entry
           paid == {m \in nodeAcked : m.entryhash = EntryHash(e)}
       IN
        /\ paid # {}
        /\ nodeAcked' = nodeAcked \ {CHOOSE m \in paid : TRUE}
        /\ nodeRevealed' = IF e.chainid = ChainId
                           THEN Append(nodeRevealed, e)
                           ELSE nodeRevealed
        /\ rpclog' = Append(rpclog, Answered(call, NodeRevealed(call)))
        /\ result' = NodeRevealed(call)
        /\ written' = IF args.method = "new_entry"
                      THEN written \cup {[ext_ids |-> args.ext_ids,
                                          content |-> args.content,
                                          entryhash |-> NodeRevealed(call).entryhash]}
                      ELSE written
    /\ pc' = "returned"
    /\ UNCHANGED <<nodeHead, nodeBlocks, nodeEntries, nodeCommits>>
    /\ UNCHANGED <<invocations, raised, args, calls, slept>>
    /\ UNCHANGED outsideCreate

\* A variant of RevealFail: the reveal is attempted again.
RevealFail_Retry ==
    /\ pc = "reveal"
    /\ rpclog' = Append(rpclog, Failed(RevealCall(args, calls)))
    /\ UNCHANGED <<nodeVars, pc, invocations, result, raised, createVars>>
    /\ UNCHANGED outsideCreate

\* The reveal call fails.
RevealFail ==
    /\ pc = "reveal"
    /\ rpclog' = Append(rpclog, Failed(RevealCall(args, calls)))
    /\ raised' = ErrorOf(RevealCall(args, calls))
    /\ pc' = "raised"
    /\ UNCHANGED <<nodeVars, invocations, result, createVars>>
    /\ UNCHANGED outsideCreate

\* The node processes a commit message it has received.
NodeProcessCommit ==
    /\ \E m \in nodeCommits :
        /\ nodeCommits' = nodeCommits \ {m}
        /\ nodeAcked' = nodeAcked \cup {m}
    /\ UNCHANGED <<nodeHead, nodeBlocks, nodeEntries, nodeRevealed>>
    /\ UNCHANGED <<readVars, callVars, createVars, nameVars, xferVars>>

\* The node closes an entry block: the entries revealed since the last one
\* become the chain's new head block.
NodeIncorporate ==
    /\ nodeRevealed # <<>>
    /\ LET k == KeyMR(Cardinality(DOMAIN nodeBlocks) + 1)
           hashes == [i \in DOMAIN nodeRevealed |-> EntryHash(nodeRevealed[i])]
       IN
        /\ nodeBlocks' = [b \in DOMAIN nodeBlocks \cup {k} |->
                            IF b = k
                            THEN [entrylist |-> hashes, prevkeymr |-> nodeHead]
                            ELSE nodeBlocks[b]]
        /\ nodeEntries' = [h \in DOMAIN nodeEntries \cup
                                  {hashes[i] : i \in DOMAIN hashes} |->
                             IF h \in DOMAIN nodeEntries
                             THEN nodeEntries[h]
                             ELSE nodeRevealed[CHOOSE i \in DOMAIN hashes :
                                                  hashes[i] = h]]
        /\ nodeHead' = k
    /\ nodeRevealed' = <<>>
    /\ UNCHANGED <<nodeCommits, nodeAcked>>
    /\ UNCHANGED <<readVars, callVars, createVars, nameVars, xferVars>>

\* -------------------------------------------------------------- read_chain

\* Factomd.chain_head: the chain-head call.
chain_head(chain_id) == Call("chain-head", [chainid |-> chain_id])

\* Factomd.entry_block: the entry-block call.
entry_block(k) == Call("entry-block", [keymr |-> k])

\* Factomd.entry: the entry call.
entry(hash) == Call("entry", [hash |-> hash])

\* A variant of DecodedEntry: the content is left hex-encoded.
DecodedEntry_ContentRaw(e) ==
    [chainid |-> e.chainid,
     extids  |-> unhex_list(e.extids),
     content |-> e.content]

\* What read_chain appends for one entry the node returned.
DecodedEntry(e) ==
    [chainid |-> e.chainid,
     extids  |-> unhex_list(e.extids),
     content |-> unhex(e.content)]

\* A variant of IterationOrder: the entry list as the block lists it.
IterationOrder_Forward(entrylist) == entrylist

\* The order in which the for loop visits a block's entry list: reversed().
IterationOrder(entrylist) == Reverse(entrylist)

\* The call of read_chain(chain_id): entries = [].
ReadChainCall ==
    /\ Callable
    /\ invocations' = invocations + 1
    /\ pc' = "chain_head"
    /\ entries' = <<>>
    /\ keymr' = None
    /\ block' = Unbound
    /\ todo' = <<>>
    /\ rpclog' = <<>>
    /\ result' = Unbound
    /\ raised' = Unbound
    /\ UNCHANGED nodeVars
    /\ UNCHANGED outsideRead

\* keymr = self.chain_head(chain_id)['chainhead'], the call answered.
ChainHeadOk ==
    /\ pc = "chain_head"
    /\ rpclog' = Append(rpclog, Answered(chain_head(ChainId), nodeHead))
    /\ keymr' = nodeHead
    /\ pc' = "while"
    /\ UNCHANGED <<nodeVars, invocations, entries, block, todo, result, raised>>
    /\ UNCHANGED outsideRead

\* The chain-head call fails (the chain is unknown, or any other error).
ChainHeadFail ==
    /\ pc = "chain_head"
    /\ rpclog' = Append(rpclog, Failed(chain_head(ChainId)))
    /\ raised' = ErrorOf(chain_head(ChainId))
    /\ pc' = "raised"
    /\ UNCHANGED <<nodeVars, invocations, readVars, result>>
    /\ UNCHANGED outsideRead

\* A variant of EntryBlockOk: the block is fetched twice.
EntryBlockOk_Refetch ==
    /\ pc = "while"
    /\ keymr # NULL_BLOCK
    /\ keymr \in DOMAIN nodeBlocks
    /\ rpclog' = rpclog \o <<Answered(entry_block(keymr), nodeBlocks[keymr]),
                            Answered(entry_block(keymr), nodeBlocks[keymr])>>
    /\ block' = nodeBlocks[keymr]
    /\ todo' = IterationOrder(nodeBlocks[keymr].entrylist)
    /\ pc' = "for"
    /\ UNCHANGED <<nodeVars, invocations, entries, keymr, result, raised>>
    /\ UNCHANGED outsideRead

\* while keymr != NULL_BLOCK: block = self.entry_block(keymr), answered; the
\* for loop takes its iterator over the block's entry list.
EntryBlockOk ==
    /\ pc = "while"
    /\ keymr # NULL_BLOCK
    /\ keymr \in DOMAIN nodeBlocks
    /\ rpclog' = Append(rpclog, Answered(entry_block(keymr), nodeBlocks[keymr]))
    /\ block' = nodeBlocks[keymr]
    /\ todo' = IterationOrder(nodeBlocks[keymr].entrylist)
    /\ pc' = "for"
    /\ UNCHANGED <<nodeVars, invocations, entries, keymr, result, raised>>
    /\ UNCHANGED outsideRead

\* A variant of EntryBlockFail: the block is fetched before keymr is tested.
EntryBlockFail_TestAfter ==
    /\ pc = "while"
    /\ rpclog' = Append(rpclog, Failed(entry_block(keymr)))
    /\ raised' = ErrorOf(entry_block(keymr))
    /\ pc' = "raised"
    /\ UNCHANGED <<nodeVars, invocations, readVars, result>>
    /\ UNCHANGED outsideRead

\* The entry-block call fails (no such block, or any other error).
EntryBlockFail ==
    /\ pc = "while"
    /\ keymr # NULL_BLOCK
    /\ rpclog' = Append(rpclog, Failed(entry_block(keymr)))
    /\ raised' = ErrorOf(entry_block(keymr))
    /\ pc' = "raised"
    /\ UNCHANGED <<nodeVars, invocations, readVars, result>>
    /\ UNCHANGED outsideRead

\* One pass of  for hash in reversed(block['entrylist']),  the entry call
\* answered: the decoded entry is appended.
EntryOk ==
    /\ pc = "for"
    /\ todo # <<>>
    /\ LET hash == Head(todo) IN
        /\ hash \in DOMAIN nodeEntries
        /\ rpclog' = Append(rpclog, Answered(entry(hash), nodeEntries[hash]))
        /\ entries' = Append(entries, DecodedEntry(nodeEntries[hash]))
    /\ todo' = Tail(todo)
    /\ UNCHANGED <<nodeVars, invocations, keymr, block, pc, result, raised>>
    /\ UNCHANGED outsideRead

\* A variant of EntryFail: the entry that cannot be fetched is skipped.
EntryFail_Skip ==
    /\ pc = "for"
    /\ todo # <<>>
    /\ rpclog' = Append(rpclog, Failed(entry(Head(todo))))
    /\ todo' = Tail(todo)
    /\ UNCHANGED <<nodeVars, invocations, entries, keymr, block, pc, result,
                   raised>>
    /\ UNCHANGED outsideRead

\* The entry call fails (no such entry, or any other error).
EntryFail ==
    /\ pc = "for"
    /\ todo # <<>>
    /\ rpclog' = Append(rpclog, Failed(entry(Head(todo))))
    /\ raised' = ErrorOf(entry(Head(todo)))
    /\ pc' = "raised"
    /\ UNCHANGED <<nodeVars, invocations, readVars, result>>
    /\ UNCHANGED outsideRead

\* A variant of NextBlock: a block already fetched is not fetched again, the
\* walk ends there.
NextBlock_Visited ==
    /\ pc = "for"
    /\ todo = <<>>
    /\ keymr' = IF \E i \in DOMAIN rpclog :
                       rpclog[i].call = entry_block(block.prevkeymr)
                 THEN NULL_BLOCK
                 ELSE block.prevkeymr
    /\ pc' = "while"
    /\ UNCHANGED <<nodeVars, invocations, entries, block, todo, rpclog, result,
                   raised>>
    /\ UNCHANGED outsideRead

\* A variant of NextBlock: the walk goes back to the chain head when the
\* node has a newer one than the head first looked up.
NextBlock_Rehead ==
    /\ pc = "for"
    /\ todo = <<>>
    /\ keymr' = IF nodeHead # rpclog[1].answer
                 THEN nodeHead
                 ELSE block.prevkeymr
    /\ pc' = "while"
    /\ UNCHANGED <<nodeVars, invocations, entries, block, todo, rpclog, result,
                   raised>>
    /\ UNCHANGED outsideRead

\* The for loop is exhausted: keymr = block['header']['prevkeymr'].
NextBlock ==
    /\ pc = "for"
    /\ todo = <<>>
    /\ keymr' = block.prevkeymr
    /\ pc' = "while"
    /\ UNCHANGED <<nodeVars, invocations, entries, block, todo, rpclog, result,
                   raised>>
    /\ UNCHANGED outsideRead

\* The while loop ends: return entries.
ReadChainReturn ==
    /\ pc = "while"
    /\ keymr = NULL_BLOCK
    /\ result' = entries
    /\ pc' = "returned"
    /\ UNCHANGED <<nodeVars, invocations, readVars, rpclog, raised>>
    /\ UNCHANGED outsideRead

\* ------------------------------------------------- the read specification

\* The entry lists a block of the read specification may hold, oldest entry
\* first: none, one, several, and the same entry twice.
EntryLists ==
    {<<>>, <<"e1">>, <<"e3">>, <<"e1", "e2">>, <<"e2", "e2">>,
     <<"e3", "e1", "e2">>}

\* What the first block's prevkeymr (the chain head, of a chain without a
\* block) may be: the sentinel, or a keymr the node has no block for.
RootPointers == {NULL_BLOCK, DanglingKeyMR}

\* The node holds a chain of b blocks, lists[i] the entry list of the i-th
\* (oldest first), linked newest-to-oldest down to root.
NodeHolds(b, lists, root) ==
    LET ptr(i) == IF i = 0 THEN root ELSE KeyMR(i) IN
    /\ nodeHead = ptr(b)
    /\ nodeBlocks = [k \in {KeyMR(i) : i \in 1..b} |->
                        LET i == CHOOSE j \in 1..b : KeyMR(j) = k IN
                        [entrylist |-> lists[i], prevkeymr |-> ptr(i - 1)]]
    /\ nodeEntries = [h \in Hashes |-> WireEntryOf(h)]
    /\ nodeCommits = {}
    /\ nodeAcked = {}
    /\ nodeRevealed = <<>>

\* No method has been called yet.
ClientIdle ==
    /\ pc = "idle"
    /\ invocations = 0
    /\ entries = <<>>
    /\ keymr = None
    /\ block = Unbound
    /\ todo = <<>>
    /\ rpclog = <<>>
    /\ result = Unbound
    /\ raised = Unbound
    /\ args = None
    /\ calls = None
    /\ slept = 0
    /\ written = {}

InitRead ==
    /\ \E b \in 0..MaxBlocks : \E lists \in [1..b -> EntryLists] :
         \E root \in RootPointers : NodeHolds(b, lists, root)
    /\ ClientIdle
    /\ NoNameDrawn
    /\ NoTransfer

NextRead ==
    \/ ReadChainCall
    \/ ChainHeadOk
    \/ ChainHeadFail
    \/ EntryBlockOk
    \/ EntryBlockFail
    \/ EntryOk
    \/ EntryFail
    \/ NextBlock
    \/ ReadChainReturn

SpecRead == InitRead /\ [][NextRead]_vars

\* --------------------------------------------- the chain the node holds

RECURSIVE WalkFrom(_, _)
\* The keymrs of the blocks met from k along prevkeymr, newest first, until
\* the sentinel, a keymr without a block, or `fuel` blocks.
WalkFrom(k, fuel) ==
    IF k = NULL_BLOCK \/ k \notin DOMAIN nodeBlocks \/ fuel = 0
    THEN <<>>
    ELSE <<k>> \o WalkFrom(nodeBlocks[k].prevkeymr, fuel - 1)

\* The blocks of the chain, newest first.
ChainBlocks == WalkFrom(nodeHead, Cardinality(DOMAIN nodeBlocks))

\* The chain's blocks are linked from the head down to the sentinel.
LinkedToSentinel ==
    IF ChainBlocks = <<>>
    THEN nodeHead = NULL_BLOCK
    ELSE nodeBlocks[ChainBlocks[Len(ChainBlocks)]].prevkeymr = NULL_BLOCK

\* The entry hashes of the chain in chronological order: the blocks oldest
\* first, each block's entry list as the block lists it.
Chronological ==
    Flatten([i \in 1..Len(ChainBlocks) |->
                nodeBlocks[Reverse(ChainBlocks)[i]].entrylist])

\* How many calls `call` the running method has issued.
CountCalls(call) == Cardinality({i \in DOMAIN rpclog : rpclog[i].call = call})

\* How many calls of `method` the running method has issued.
CountMethod(method) ==
    Cardinality({i \in DOMAIN rpclog : rpclog[i].call.method = method})

\* How many times x occurs in the sequence s.
Occurrences(s, x) == Cardinality({i \in DOMAIN s : s[i] = x})

\* read_chain is the method that has returned.
ReadReturned ==
    /\ pc = "returned"
    /\ rpclog # <<>>
    /\ rpclog[1].call.method = "chain-head"

\* ------------------------------------------------------------------ claims

\* C1: when read_chain returns for a chain linked down to the sentinel, its
\* result is the chain's N entries, decoded, in reverse chronological order
\* (the newest block first, and each block's entry list reversed), each entry
\* of the chain exactly once.
C1_ReverseChronological ==
    (ReadReturned /\ LinkedToSentinel) =>
        /\ Len(result) = Len(Chronological)
        /\ \A i \in 1..Len(result) :
             result[i] =
               DecodedEntry(nodeEntries[Chronological[Len(Chronological) + 1 - i]])

\* A read of two blocks, the newer with two different entries, has returned.
C1_Witness ==
    /\ ReadReturned
    /\ Len(ChainBlocks) = 2
    /\ Len(nodeBlocks[nodeHead].entrylist) = 2
    /\ nodeBlocks[nodeHead].entrylist[1] # nodeBlocks[nodeHead].entrylist[2]
    /\ Len(result) >= 3

\* C2: a read_chain that returns has issued exactly one chain-head call, one
\* entry-block call per block of the chain, one entry call per entry hash the
\* chain lists, and no other call.
C2_CallCounts ==
    ReadReturned =>
        /\ CountCalls(chain_head(ChainId)) = 1
        /\ \A i \in 1..Len(ChainBlocks) :
             CountCalls(entry_block(ChainBlocks[i])) = 1
        /\ \A h \in Hashes :
             CountCalls(entry(h)) = Occurrences(Chronological, h)
        /\ Len(rpclog) = 1 + Len(ChainBlocks) + Len(Chronological)

\* A read of two blocks and three entries, all different, has returned.
C2_Witness ==
    /\ ReadReturned
    /\ Len(ChainBlocks) = 2
    /\ Len(Chronological) = 3
    /\ \A h \in Hashes : Occurrences(Chronological, h) = 1

\* C3: when the chain head the node answers is the sentinel, read_chain
\* issues no entry-block call and no entry call, and returns the empty list.
C3_EmptyChain ==
    (rpclog # <<>> /\ rpclog[1].call = chain_head(ChainId) /\ rpclog[1].ok
       /\ rpclog[1].answer = NULL_BLOCK) =>
        /\ CountMethod("entry-block") = 0
        /\ CountMethod("entry") = 0
        /\ pc \in {"while", "returned"}
        /\ pc = "returned" => result = <<>>

\* A read of the empty chain has returned.
C3_Witness ==
    /\ ReadReturned
    /\ nodeHead = NULL_BLOCK
    /\ result = <<>>

\* The walk of read_chain stops at the all-zero string of n characters, and
\* only there: no entry-block call is issued for it, and read_chain returns
\* only with keymr equal to it.
StopsAtZeros(n) ==
    /\ \A i \in DOMAIN rpclog :
         rpclog[i].call.method = "entry-block" =>
             rpclog[i].call.params.keymr # Rep("0", n)
    /\ ReadReturned => keymr = Rep("0", n)

\* C4 (as stated): the sentinel read_chain stops at is the 66-character
\* all-zero string.
C4_Sentinel66 == StopsAtZeros(66)

\* C4 (amended): the sentinel read_chain stops at is the 64-character all-zero
\* string: no entry-block call is issued for it, and read_chain returns only
\* when keymr equals it.
C4_Sentinel64 == StopsAtZeros(64)

\* A read of a chain with a block has returned: the prevkeymr of the oldest
\* block was the 64-character all-zero string.
C4_Witness ==
    /\ ReadReturned
    /\ ChainBlocks # <<>>
    /\ nodeBlocks[ChainBlocks[Len(ChainBlocks)]].prevkeymr = Rep("0", 64)

\* C10: a call of read_chain that fails is the last call issued; read_chain
\* has then raised that call's error and returned nothing.
C10_FailureAborts ==
    \A i \in DOMAIN rpclog :
        (rpclog[1].call.method = "chain-head" /\ ~rpclog[i].ok) =>
            /\ i = Len(rpclog)
            /\ pc = "raised"
            /\ raised = ErrorOf(rpclog[i].call)
            /\ result = Unbound

\* An entry call has failed after read_chain had collected an entry.
C10_Witness ==
    /\ pc = "raised"
    /\ rpclog[Len(rpclog)].call.method = "entry"
    /\ ~rpclog[Len(rpclog)].ok
    /\ entries # <<>>

\* ------------------------------------------------- the name specification

InitNameSpec ==
    /\ InitName
    /\ NodeHolds(0, <<>>, NULL_BLOCK)
    /\ ClientIdle
    /\ NoTransfer

NextName ==
    \/ XactNameDraw
    \/ XactNameReturn

SpecName == InitNameSpec /\ [][NextName]_vars

\* The characters A-Z and 0-9.
UppercaseAndDigits ==
    {"A", "B", "C", "D", "E", "F", "G", "H", "I", "J", "K", "L", "M",
     "N", "O", "P", "Q", "R", "S", "T", "U", "V", "W", "X", "Y", "Z",
     "0", "1", "2", "3", "4", "5", "6", "7", "8", "9"}

\* C9: a name _xact_name returns is 'TX_' followed by exactly 6 characters,
\* each an uppercase letter or a digit.
C9_NameShape ==
    xact_name # None =>
        /\ Len(xact_name) = 9
        /\ SubSeq(xact_name, 1, 3) = <<"T", "X", "_">>
        /\ \A i \in 4..Len(xact_name) : xact_name[i] \in UppercaseAndDigits

\* A name with the letter Z and the digit 0 in its suffix has been returned.
C9_Witness ==
    /\ xact_name # None
    /\ \E i, j \in 4..Len(xact_name) : xact_name[i] = "Z" /\ xact_name[j] = "0"

\* --------------------------------------------- the transfer specification

InitTransfer ==
    /\ NoTransfer
    /\ NodeHolds(0, <<>>, NULL_BLOCK)
    /\ ClientIdle
    /\ NoNameDrawn

NextTransfer ==
    \/ \E p \in Procs : TransferCall(p)
    \/ \E p \in Procs : WalletCallOk(p)
    \/ \E p \in Procs : SubmitOk(p)
    \/ \E p \in Procs : TransferCallFail(p)

SpecTransfer == InitTransfer /\ [][NextTransfer]_vars

\* The methods of the calls in a log, in order.
Methods(log) == [i \in DOMAIN log |-> log[i].call.method]

\* The order of the calls the claim states for a transfer method.
ClaimedOrder(method) ==
    <<"new-transaction", "add-input",
      IF method = "fct_to_ec" THEN "add-ec-output" ELSE "add-output",
      "add-fee", "sign-transaction", "compose-transaction", "factoid-submit">>

\* C5: the calls a transfer has issued are the first calls of the fixed order
\* new-transaction, add-input, add-ec-output (fct_to_ec) or add-output
\* (fct_to_fct), add-fee, sign-transaction, compose-transaction,
\* factoid-submit, each at most once, and every call before the last one
\* issued was answered: after a failed call no factoid-submit is issued.
C5_FixedOrder ==
    \A p \in Procs :
        xlog[p] # <<>> =>
            /\ Len(xlog[p]) <= 7
            /\ Methods(xlog[p]) =
                   SubSeq(ClaimedOrder(xargs[p].method), 1, Len(xlog[p]))
            /\ \A i \in 1..(Len(xlog[p]) - 1) : xlog[p][i].ok
            /\ (\E i \in DOMAIN xlog[p] :
                   ~xlog[p][i].ok /\ xlog[p][i].call.method # "factoid-submit")
                 => \A i \in DOMAIN xlog[p] :
                       xlog[p][i].call.method # "factoid-submit"

\* One transfer has submitted, and another has failed at sign-transaction
\* and stopped there.
C5_Witness ==
    \E p, q \in Procs :
        /\ xpc[p] = "returned"
        /\ Len(xlog[p]) = 7
        /\ xpc[q] = "raised"
        /\ xraised[q].error.method = "sign-transaction"

RECURSIVE BuilderAfter(_)
\* The builder a wallet holds under a name that only the calls of `log` were
\* made for: the calls answered applied in order, the failed one left out.
BuilderAfter(log) ==
    IF log = <<>> THEN EmptyBuilder
    ELSE LET b == BuilderAfter(SubSeq(log, 1, Len(log) - 1))
             e == log[Len(log)]
             put == [amount |-> e.call.params.amount,
                     address |-> e.call.params.address]
         IN  IF ~e.ok THEN b
             ELSE CASE e.call.method = "add-input" ->
                         [b EXCEPT !.inputs = Append(@, put)]
                    [] e.call.method = "add-ec-output" ->
                         [b EXCEPT !.ecoutputs = Append(@, put)]
                    [] e.call.method = "add-output" ->
                         [b EXCEPT !.outputs = Append(@, put)]
                    [] e.call.method = "add-fee" ->
                         [b EXCEPT !.fees = Append(@, e.call.params.address)]
                    [] e.call.method = "sign-transaction" ->
                         [b EXCEPT !.signed = TRUE]
                    [] OTHER -> b

\* Another transfer was given the name transfer p was given.
NameShared(p) ==
    \E q \in Procs \ {p} : xpc[q] # "idle" /\ xname[q] = xname[p]

\* C13: when a call after new-transaction has failed in fct_to_ec or
\* fct_to_fct, the transfer has issued no call beyond its fixed order (none
\* that would undo its work), and the builder it opened is still open on the
\* wallet; when no other transfer uses the name, the builder holds exactly
\* what the calls answered before the failure put into it.
C13_BuilderLeftOpen ==
    \A p \in Procs :
        (xpc[p] = "raised" /\ Len(xlog[p]) >= 2) =>
            /\ ~xlog[p][Len(xlog[p])].ok
            /\ Methods(xlog[p]) =
                   SubSeq(ClaimedOrder(xargs[p].method), 1, Len(xlog[p]))
            /\ xname[p] \in DOMAIN builders
            /\ ~NameShared(p) => builders[xname[p]] = BuilderAfter(xlog[p])

\* A fct_to_ec alone under its name has failed at sign-transaction: its
\* builder is open, unsigned, with one input, one entry-credit output and
\* the fee.
C13_Witness ==
    \E p \in Procs :
        /\ xpc[p] = "raised"
        /\ Len(xlog[p]) = 5
        /\ ~NameShared(p)
        /\ xname[p] \in DOMAIN builders
        /\ Len(builders[xname[p]].inputs) = 1
        /\ Len(builders[xname[p]].ecoutputs) = 1
        /\ Len(builders[xname[p]].fees) = 1
        /\ ~builders[xname[p]].signed

\* The places in a log of the calls of one of `methods`.
CallsOf(log, methods) == {i \in DOMAIN log : log[i].call.method \in methods}

\* The methods of the wallet daemon a transfer calls.
WalletMethods ==
    {"new-transaction", "add-input", "add-ec-output", "add-output", "add-fee",
     "sign-transaction", "compose-transaction"}
OutputMethods == {"add-ec-output", "add-output"}

\* What the calls of transfer p carry: every wallet call the name of p, the
\* one add-input call and the one output call the amount of the caller, the
\* factoid-submit call the transaction the compose-transaction call of p was
\* answered with; and a transfer that has returned has made its six wallet
\* calls and returned the answer to factoid-submit.
OneNameOneTransaction(p) ==
    LET log == xlog[p] IN
    /\ \A i \in CallsOf(log, WalletMethods) :
           log[i].call.params.txname = xname[p]
    /\ Cardinality(CallsOf(log, {"add-input"})) <= 1
    /\ Cardinality(CallsOf(log, OutputMethods)) <= 1
    /\ \A i \in CallsOf(log, {"add-input"} \cup OutputMethods) :
           log[i].call.params.amount = xargs[p].amount
    /\ \A i \in CallsOf(log, {"factoid-submit"}) :
           /\ i = 7
           /\ log[6].call = compose_transaction(xname[p])
           /\ log[6].ok
           /\ log[7].call.params.transaction = log[6].answer
    /\ xpc[p] = "returned" =>
           /\ Len(log) = 7
           /\ Cardinality(CallsOf(log, WalletMethods)) = 6
           /\ Cardinality(CallsOf(log, {"add-input"})) = 1
           /\ Cardinality(CallsOf(log, OutputMethods)) = 1
           /\ log[7].ok
           /\ xresult[p] = log[7].answer
           /\ ~NameShared(p) =>
                  /\ Len(log[6].answer.inputs) = 1
                  /\ log[6].answer.inputs[1].amount = xargs[p].amount
                  /\ Len(log[6].answer.outputs \o log[6].answer.ecoutputs) = 1
                  /\ (log[6].answer.outputs \o log[6].answer.ecoutputs)[1].amount
                         = xargs[p].amount

\* The name of a transfer that has been called does not change.
NameKept == \A p \in Procs : xpc[p] # "idle" => xname'[p] = xname[p]

\* C14: a transfer is given one name, once; its six wallet calls all carry
\* that name; it adds one input and one output, both of the caller's amount;
\* the transaction it submits is the one its compose-transaction call was
\* answered with, and what it returns is the answer to factoid-submit.
C14_OneNameOneTransaction ==
    /\ [](\A p \in Procs : xpc[p] # "idle" => OneNameOneTransaction(p))
    /\ [][NameKept]_vars

\* A fct_to_fct alone under its name has returned: the transaction it
\* submitted has its one input and its one output.
C14_Witness ==
    \E p \in Procs :
        /\ xpc[p] = "returned"
        /\ xargs[p].method = "fct_to_fct"
        /\ ~NameShared(p)
        /\ submitted # <<>>
        /\ xlog[p][7].call.params.transaction.outputs =
               <<[amount |-> xargs[p].amount, address |-> "FA3"]>>
        /\ Len(xlog[p][7].call.params.transaction.inputs) = 1

\* The transfers that were given the name n.
Named(n) == {p \in Procs : xpc[p] # "idle" /\ xname[p] = n}

\* How many of the transfers named n had a call of one of `methods` answered.
AnsweredUnder(n, methods) ==
    Cardinality({p \in Named(n) :
                    \E i \in CallsOf(xlog[p], methods) : xlog[p][i].ok})

\* The one builder open under a name holds what every transfer given that
\* name has put into it.
BuilderShared ==
    \A n \in DOMAIN builders :
        /\ Len(builders[n].inputs) = AnsweredUnder(n, {"add-input"})
        /\ Len(builders[n].outputs \o builders[n].ecoutputs) =
               AnsweredUnder(n, OutputMethods)
        /\ Len(builders[n].fees) = AnsweredUnder(n, {"add-fee"})

\* C16: the client raises in a transfer only the error of a call that failed:
\* no name is refused, a name another transfer has included; the builder
\* open under a name holds what every transfer given that name put into it;
\* and the transaction a transfer submits is that builder as its
\* compose-transaction call found it.
C16_NoCollisionGuard ==
    /\ \A p \in Procs :
           xpc[p] = "raised" =>
               /\ xlog[p] # <<>>
               /\ ~xlog[p][Len(xlog[p])].ok
               /\ xraised[p] = ErrorOf(xlog[p][Len(xlog[p])].call)
    /\ BuilderShared
    /\ \A p \in Procs :
           xpc[p] = "returned" =>
               /\ submitted # <<>>
               /\ \E k \in DOMAIN submitted : submitted[k] = xlog[p][6].answer
               /\ Len(xlog[p][6].answer.inputs) <=
                      Cardinality(Named(xname[p]))

\* Two transfers given the same name have both returned, and one of them
\* has submitted a transaction with two inputs and two outputs.
C16_Witness ==
    \E p, q \in Procs :
        /\ p # q
        /\ xpc[p] = "returned"
        /\ xpc[q] = "returned"
        /\ xname[p] = xname[q]
        /\ Len(xlog[p][7].call.params.transaction.inputs) = 2
        /\ Len(xlog[p][7].call.params.transaction.outputs \o
               xlog[p][7].call.params.transaction.ecoutputs) = 2

\* The transaction of transfer p alone: its input, its output, its fee,
\* signed.
OwnTransaction(p) ==
    LET a == xargs[p]
        from == Resolved(a.from, self_fct_address)
    IN  [inputs    |-> <<[amount |-> a.amount, address |-> from]>>,
         outputs   |-> IF a.method = "fct_to_fct"
                       THEN <<[amount |-> a.amount, address |-> a.to]>>
                       ELSE <<>>,
         ecoutputs |-> IF a.method = "fct_to_ec"
                       THEN <<[amount |-> a.amount,
                               address |-> Resolved(a.to, self_ec_address)]>>
                       ELSE <<>>,
         fees      |-> <<from>>,
         signed    |-> TRUE]

\* C17: a transfer whose name no other transfer was given makes no call
\* under another transfer's name; the builder under its name holds only
\* what its own answered calls put into it, however the calls of the two
\* transfers interleave; and when it returns, the transaction it submitted
\* is made of exactly its own input, its own output and its own fee.
C17_DistinctNamesIsolated ==
    \A p \in Procs :
        (xpc[p] # "idle" /\ ~NameShared(p)) =>
            /\ \A i \in CallsOf(xlog[p], WalletMethods) :
                  \A q \in Procs \ {p} :
                      xpc[q] # "idle" =>
                          xlog[p][i].call.params.txname # xname[q]
            /\ xname[p] \in DOMAIN builders =>
                   builders[xname[p]] = BuilderAfter(xlog[p])
            /\ xpc[p] = "returned" =>
                   /\ xlog[p][7].call.params.transaction = OwnTransaction(p)
                   /\ \E k \in DOMAIN submitted :
                          submitted[k] = OwnTransaction(p)

\* A fct_to_fct and then a fct_to_ec, under different names, have each
\* submitted their own transaction.
C17_Witness ==
    \E p, q \in Procs :
        /\ xpc[p] = "returned"
        /\ xpc[q] = "returned"
        /\ xargs[p].method = "fct_to_ec"
        /\ xargs[q].method = "fct_to_fct"
        /\ xname[p] # xname[q]
        /\ Len(submitted) = 2
        /\ submitted[1] = OwnTransaction(q)
        /\ submitted[2] = OwnTransaction(p)

\* --------------------------------------------- the creation specification

InitCreate ==
    /\ \E b \in 0..1 : NodeHolds(b, [i \in 1..b |-> <<"e1", "e2">>], NULL_BLOCK)
    /\ ClientIdle
    /\ NoNameDrawn
    /\ NoTransfer

NextCreate ==
    \/ CreateCall
    \/ ComposeOk
    \/ ComposeFail
    \/ CommitOk
    \/ CommitFail
    \/ Sleep
    \/ RevealOk
    \/ RevealFail
    \/ NodeProcessCommit
    \/ NodeIncorporate
    \/ NextRead

SpecCreate == InitCreate /\ [][NextCreate]_vars

\* new_chain or new_entry is the method that runs or has run last.
Creating == rpclog # <<>> /\ rpclog[1].call.method \in {"compose-chain", "compose-entry"}

\* The methods of the commit and of the reveal calls.
CommitMethods == {"commit-chain", "commit-entry"}
RevealMethods == {"reveal-chain", "reveal-entry"}

\* C6: when the commit call of new_chain or new_entry has failed, no reveal
\* call is issued, the commit call is the last call issued, and the error
\* raised to the caller is the commit call's.
C6_CommitFailure ==
    \A i \in DOMAIN rpclog :
        (rpclog[i].call.method \in CommitMethods /\ ~rpclog[i].ok) =>
            /\ \A j \in DOMAIN rpclog : rpclog[j].call.method \notin RevealMethods
            /\ i = Len(rpclog)
            /\ pc = "raised"
            /\ raised = ErrorOf(rpclog[i].call)
            /\ result = Unbound

\* The commit call of a new_chain has failed.
C6_Witness ==
    /\ pc = "raised"
    /\ Len(rpclog) = 2
    /\ rpclog[2].call.method = "commit-chain"
    /\ ~rpclog[2].ok

\* The order of the calls the claim states for a creation method.
ClaimedCreation(method) ==
    IF method = "compose-chain"
    THEN <<"compose-chain", "commit-chain", "reveal-chain">>
    ELSE <<"compose-entry", "commit-entry", "reveal-entry">>

\* C7: the calls of new_chain and new_entry are the first calls of compose,
\* commit, reveal, each call issued only after the one before it was
\* answered; the 2 seconds are slept after the commit is answered and before
\* the reveal is issued; the commit carries the commit message and the reveal
\* the reveal entry of the compose call's answer; and what the method returns
\* is the answer to the reveal.
C7_ComposeCommitWaitReveal ==
    Creating =>
        /\ Len(rpclog) <= 3
        /\ Methods(rpclog) =
               SubSeq(ClaimedCreation(rpclog[1].call.method), 1, Len(rpclog))
        /\ \A i \in 1..(Len(rpclog) - 1) : rpclog[i].ok
        /\ slept \in {0, 2}
        /\ slept = 2 => (Len(rpclog) >= 2 /\ rpclog[2].ok)
        /\ Len(rpclog) = 3 => slept = 2
        /\ Len(rpclog) >= 2 =>
               rpclog[2].call.params.message =
                   rpclog[1].answer.commit.params.message
        /\ Len(rpclog) = 3 =>
               rpclog[3].call.params.entry =
                   rpclog[1].answer.reveal.params.entry
        /\ pc = "returned" =>
               (Len(rpclog) = 3 /\ rpclog[3].ok /\ result = rpclog[3].answer)

\* A new_entry has returned the answer to its reveal.
C7_Witness ==
    /\ Creating
    /\ pc = "returned"
    /\ rpclog[3].call.method = "reveal-entry"
    /\ slept = 2

\* The blocks of the chain as the chain-head call of read_chain found it:
\* the blocks linked from the head it was answered with.
BlocksAtLookup ==
    LET walk == WalkFrom(rpclog[1].answer, Cardinality(DOMAIN nodeBlocks))
    IN  {walk[i] : i \in DOMAIN walk}

\* The entry hashes those blocks list.
HashesAtLookup ==
    UNION {{nodeBlocks[k].entrylist[i] : i \in DOMAIN nodeBlocks[k].entrylist} :
              k \in BlocksAtLookup}

\* C8: when read_chain returns, every entry a new_entry that returned was
\* given, and that the chain held when read_chain looked up its head, is in
\* the result with the extids and the content new_entry was given.
C8_RoundTrip ==
    ReadReturned =>
        \A w \in written :
            w.entryhash \in HashesAtLookup =>
                \E i \in DOMAIN result :
                    /\ result[i].extids = w.ext_ids
                    /\ result[i].content = w.content

\* A read has returned an entry that new_entry wrote with two external ids
\* and a content of two bytes.
C8_Witness ==
    /\ ReadReturned
    /\ \E w \in written :
        /\ w.entryhash \in HashesAtLookup
        /\ Len(w.ext_ids) = 2
        /\ Len(w.content) = 2

\* The node has processed a commit of the entry the reveal call carries.
CommitProcessed ==
    \E m \in nodeAcked : m.entryhash = EntryHash(calls.reveal.params.entry)

\* The reveal call has failed: it is the third call and the last, the only
\* reveal call issued, its error is raised, and the commit before it was
\* accepted.
RevealFailurePropagates ==
    \A i \in DOMAIN rpclog :
        (rpclog[i].call.method \in RevealMethods /\ ~rpclog[i].ok) =>
            /\ i = 3
            /\ Len(rpclog) = 3
            /\ rpclog[2].call.method \in CommitMethods
            /\ rpclog[2].ok
            /\ pc = "raised"
            /\ raised = ErrorOf(rpclog[3].call)
            /\ result = Unbound

\* The reveal is issued while the node has not processed the commit: it
\* fails, and the method raises.
PrematureRevealFails ==
    (pc = "reveal" /\ ~CommitProcessed /\ pc' # "reveal") =>
        /\ pc' = "raised"
        /\ Len(rpclog') = 3
        /\ ~rpclog'[3].ok
        /\ nodeRevealed' = nodeRevealed

\* C12: a reveal call of new_chain / new_entry that the node receives before
\* it has processed the commit fails; a reveal call that failed is not
\* attempted again: its error is raised to the caller, the commit having been
\* accepted by the node and the entry not revealed.
C12_PrematureReveal ==
    /\ []RevealFailurePropagates
    /\ [][PrematureRevealFails]_vars

\* A new_entry has raised the error of its reveal call: the node holds the
\* commit, not yet processed, and has not been given the entry.
C12_Witness ==
    /\ pc = "raised"
    /\ Len(rpclog) = 3
    /\ rpclog[3].call.method = "reveal-entry"
    /\ ~rpclog[3].ok
    /\ rpclog[2].call.params.message \in nodeCommits
    /\ \A i \in DOMAIN nodeRevealed :
           nodeRevealed[i] # rpclog[3].call.params.entry
    /\ EntryHash(rpclog[3].call.params.entry) \notin DOMAIN nodeEntries

\* The entry hashes of the chain as the chain-head call of read_chain found
\* it, in chronological order.
ChronologicalAtLookup ==
    LET walk == WalkFrom(rpclog[1].answer, Cardinality(DOMAIN nodeBlocks))
    IN  Flatten([i \in 1..Len(walk) |-> nodeBlocks[Reverse(walk)[i]].entrylist])

\* What read_chain returns of the chain as its chain-head call found it: the
\* entries newest first, decoded.
SnapshotAtLookup ==
    LET chron == ChronologicalAtLookup IN
    [i \in 1..Len(chron) |->
        DecodedEntry(nodeEntries[chron[Len(chron) + 1 - i]])]

\* The node never changes a block it holds, nor an entry.
BlocksImmutable ==
    /\ \A k \in DOMAIN nodeBlocks :
           k \in DOMAIN nodeBlocks' /\ nodeBlocks'[k] = nodeBlocks[k]
    /\ \A h \in DOMAIN nodeEntries :
           h \in DOMAIN nodeEntries' /\ nodeEntries'[h] = nodeEntries[h]

\* C18: the node only appending blocks, whatever it appends while read_chain
\* runs, the entries read_chain has collected are the first entries of the
\* chain as the chain-head lookup found it, newest first, and the list it
\* returns is that chain exactly: nothing appended after the lookup is in it,
\* nothing reachable from that head is missing or is there more often than
\* the chain lists it.
C18_SnapshotAtLookup ==
    /\ [][BlocksImmutable]_vars
    /\ []((rpclog # <<>> /\ rpclog[1].call.method = "chain-head" /\ rpclog[1].ok)
             => /\ Len(entries) <= Len(SnapshotAtLookup)
                /\ entries = SubSeq(SnapshotAtLookup, 1, Len(entries))
                /\ pc = "returned" => result = SnapshotAtLookup)

\* read_chain is inside its walk, with an entry collected, and the node has
\* appended a block since the chain-head lookup.
C18_Witness ==
    /\ pc = "for"
    /\ entries # <<>>
    /\ rpclog[1].call.method = "chain-head"
    /\ nodeHead # rpclog[1].answer
    /\ nodeBlocks[nodeHead].prevkeymr = rpclog[1].answer

\* ------------------------------------------------- the loop specification

\* The longest entry list of a block.
LongestList ==
    CHOOSE n \in {Len(l) : l \in EntryLists} : \A l \in EntryLists : Len(l) <= n

\* The calls one read_chain is followed for: those of a read of the longest
\* chain, and one more.
CallBudget == 2 + MaxBlocks * (1 + LongestList)
WithinBudget == Len(rpclog) < CallBudget

\* The chains of the read specification, and those whose oldest block links
\* back to a block of the chain.
InitLoop ==
    /\ \E b \in 0..MaxBlocks : \E lists \in [1..b -> EntryLists] :
         \E root \in RootPointers \cup {KeyMR(i) : i \in 1..b} :
             NodeHolds(b, lists, root)
    /\ ClientIdle
    /\ NoNameDrawn
    /\ NoTransfer

\* One step of the read_chain that runs: a call and its answer, or a
\* statement without a call.
ReadStep ==
    \/ WithinBudget /\ ChainHeadOk
    \/ WithinBudget /\ ChainHeadFail
    \/ WithinBudget /\ EntryBlockOk
    \/ WithinBudget /\ EntryBlockFail
    \/ WithinBudget /\ EntryOk
    \/ WithinBudget /\ EntryFail
    \/ NextBlock
    \/ ReadChainReturn

NextLoop ==
    \/ ReadChainCall
    \/ WithinBudget /\ ChainHeadOk
    \/ WithinBudget /\ ChainHeadFail
    \/ WithinBudget /\ EntryBlockOk
    \/ WithinBudget /\ EntryBlockFail
    \/ WithinBudget /\ EntryOk
    \/ WithinBudget /\ EntryFail
    \/ NextBlock
    \/ ReadChainReturn

\* read_chain is synchronous and every call is answered, with a result or
\* with an error: the read that runs takes its next step.
SpecLoop == InitLoop /\ [][NextLoop]_vars /\ WF_vars(ReadStep)

\* The prevkeymr links from the chain head never leave the blocks of the
\* node: they form a cycle.
CyclicChain ==
    /\ ChainBlocks # <<>>
    /\ nodeBlocks[ChainBlocks[Len(ChainBlocks)]].prevkeymr \in DOMAIN nodeBlocks

\* C19: a read_chain of a chain whose links reach the sentinel ends: it
\* returns, or raises the error of a call that failed (so it returns when
\* every call succeeds).  A read_chain of a chain whose links form a cycle
\* never returns: its keymr is always a block of the cycle, never the
\* sentinel, there being no visited-set and no bound in the loop.
C19_Termination ==
    /\ (pc = "chain_head" /\ LinkedToSentinel) ~> (pc \in {"returned", "raised"})
    /\ [](pc = "raised" => ~rpclog[Len(rpclog)].ok)
    /\ [](CyclicChain => pc # "returned")
    /\ []((CyclicChain /\ pc \in {"while", "for"}) =>
              (keymr # NULL_BLOCK /\ keymr \in DOMAIN nodeBlocks))

\* A read_chain of a cyclic chain, every call answered, is still walking
\* after it has fetched the head block a second time.
C19_Witness ==
    /\ CyclicChain
    /\ pc \in {"while", "for"}
    /\ \A i \in DOMAIN rpclog : rpclog[i].ok
    /\ CountCalls(entry_block(nodeHead)) >= 2
    /\ entries # <<>>

\* -------------------------------------------- the workflows specification

\* No transfer has been called; no creation and no read has been called.
NoTransferCalled == \A p \in Procs : xpc[p] = "idle"
NoMethodCalled == pc = "idle" /\ invocations = 0

\* The five workflows under one caller.  The creations and reads on the one
\* hand and the transfers on the other share no variable of the client or of
\* the daemons, so a behaviour runs the ones or the others.
InitWorkflows == InitCreate

NextWorkflows ==
    \/ NoTransferCalled /\ CreateCall
    \/ NoTransferCalled /\ ReadChainCall
    \/ ComposeOk
    \/ ComposeFail
    \/ CommitOk
    \/ CommitFail
    \/ Sleep
    \/ RevealOk
    \/ RevealFail
    \/ NodeProcessCommit
    \/ NodeIncorporate
    \/ ChainHeadOk
    \/ ChainHeadFail
    \/ EntryBlockOk
    \/ EntryBlockFail
    \/ EntryOk
    \/ EntryFail
    \/ NextBlock
    \/ ReadChainReturn
    \/ \E p \in Procs : NoMethodCalled /\ TransferCall(p)
    \/ \E p \in Procs : WalletCallOk(p)
    \/ \E p \in Procs : SubmitOk(p)
    \/ \E p \in Procs : TransferCallFail(p)

SpecWorkflows == InitWorkflows /\ [][NextWorkflows]_vars

\* In a log, a call that failed is the last call, and the first that failed.
FailureIsLast(log) ==
    \A i \in DOMAIN log : ~log[i].ok => i = Len(log)

\* C11: in read_chain, new_chain, new_entry, fct_to_ec and fct_to_fct alike,
\* a call that fails is the last call the invocation issues (neither it nor
\* any other call follows it), and the invocation has ended raising the error
\* of that call, having returned nothing.
C11_NoRetry ==
    /\ FailureIsLast(rpclog)
    /\ (rpclog # <<>> /\ ~rpclog[Len(rpclog)].ok) =>
           /\ pc = "raised"
           /\ raised = ErrorOf(rpclog[Len(rpclog)].call)
           /\ result = Unbound
    /\ \A p \in Procs :
           /\ FailureIsLast(xlog[p])
           /\ (xlog[p] # <<>> /\ ~xlog[p][Len(xlog[p])].ok) =>
                  /\ xpc[p] = "raised"
                  /\ xraised[p] = ErrorOf(xlog[p][Len(xlog[p])].call)
                  /\ xresult[p] = None

\* A transfer has ended at its add-fee call, which failed, while another has
\* gone on to compose.
C11_Witness ==
    \E p, q \in Procs :
        /\ xpc[p] = "raised"
        /\ Len(xlog[p]) = 4
        /\ ~xlog[p][4].ok
        /\ xlog[p][4].call.method = "add-fee"
        /\ Len(xlog[q]) = 6

\* C15: the address of add-input and of add-fee is fct_address / fct_from
\* when given, else the default factoid address, so that add-fee names the
\* address add-input named; the address of add-ec-output and the ecpub of
\* compose-chain / compose-entry are ec_address when given, else the default
\* entry-credit address.
C15_AddressResolution ==
    /\ \A p \in Procs : \A i \in DOMAIN xlog[p] :
           LET call == xlog[p][i].call IN
           /\ call.method = "add-input" =>
                  call.params.address = Resolved(xargs[p].from, self_fct_address)
           /\ call.method = "add-fee" =>
                  /\ call.params.address =
                         Resolved(xargs[p].from, self_fct_address)
                  /\ call.params.address = xlog[p][2].call.params.address
           /\ call.method = "add-ec-output" =>
                  call.params.address = Resolved(xargs[p].to, self_ec_address)
    /\ Creating =>
           rpclog[1].call.params.ecpub =
               Resolved(args.ec_address, self_ec_address)

\* A fct_to_ec given fct_address and no ec_address has added its fee, and
\* another given neither address has too.
C15_Witness ==
    \E p, q \in Procs :
        /\ Len(xlog[p]) >= 4
        /\ xargs[p].method = "fct_to_ec"
        /\ xargs[p].from = "FA2"
        /\ xargs[p].to = None
        /\ xlog[p][4].call.params.address = "FA2"
        /\ xlog[p][3].call.params.address = self_ec_address
        /\ Len(xlog[q]) >= 4
        /\ xargs[q].from = None
        /\ xlog[q][4].call.params.address = self_fct_address

====
